---- MODULE Spec2Model ----
(***************************************************************************)
(* Hotel reservation system: three JSON files (hotels, customers,          *)
(* reservations), each rewritten as a whole by every mutating operation.   *)
(* Every operation is load-all -> mutate-one -> save-all.                  *)
(***************************************************************************)
EXTENDS Integers, Sequences, FiniteSets, TLC

\* ------------------------------------------------------------------ bounds
MaxRooms == 1
MaxOcc == 2
TripRooms == 3

\* ------------------------------------------------------- input alphabets
HotelIds == {"H1", "H2"}
CustomerIds == {"C1", "C2"}
ReservationIds == {"R1", "R2"}
Names == {"Grand Inn"}
Locations == {"NYC"}
Emails == {"a@x.com"}
Phones == {"555"}
Dates == {"2024-01-01"}
None == "<None>"
RoomTotals == 0..MaxRooms

VARIABLES hotelsFile, customersFile, reservationsFile, last, proc

vars == <<hotelsFile, customersFile, reservationsFile, last, proc>>

\* ------------------------------------------------------------ dictionaries
EmptyDict == <<>>

Put(d, k, v) == [x \in (DOMAIN d) \cup {k} |-> IF x = k THEN v ELSE d[x]]

Del(d, k) == [x \in (DOMAIN d) \ {k} |-> d[x]]

\* a file on disk: absent, unparseable, or a JSON object of records
MissingFile == [kind |-> "missing", data |-> EmptyDict]

CorruptFile == [kind |-> "corrupt", data |-> EmptyDict]

JsonFile(d) == [kind |-> "json", data |-> d]

\* outcome of open(..., "w") + json.dump: the write completes, open() raises
\* OSError (file untouched), or the dump raises OSError after the truncation
WriteOutcomes == {"ok", "open_fails", "write_fails"}

WriteFile(file, d, w) ==
    CASE w = "ok" -> JsonFile(d)
      [] w = "open_fails" -> file
      [] OTHER -> CorruptFile

\* -------------------------------------------------------------- sequences
In(x, s) == \E i \in 1..Len(s) : s[i] = x

\* list.remove(x): drops the first occurrence
RECURSIVE ListRemove(_, _)
ListRemove(s, x) ==
    IF s = <<>> THEN <<>>
    ELSE IF Head(s) = x THEN Tail(s)
    ELSE <<Head(s)>> \o ListRemove(Tail(s), x)

Max(a, b) == IF a >= b THEN a ELSE b

Min(a, b) == IF a <= b THEN a ELSE b

Truthy(s) == s # None /\ s # ""

\* ------------------------------------------------------------------ Hotel
Hotel(hotel_id, name, location, total_rooms) ==
    [hotel_id |-> hotel_id, name |-> name, location |-> location,
     total_rooms |-> total_rooms, available_rooms |-> total_rooms,
     reservations |-> <<>>]

Hotel_to_dict(self) ==
    [hotel_id |-> self.hotel_id, name |-> self.name,
     location |-> self.location, total_rooms |-> self.total_rooms,
     available_rooms |-> self.available_rooms,
     reservations |-> self.reservations]

HotelRequired == {"hotel_id", "name", "location", "total_rooms"}

\* from_dict raises KeyError when a required key is missing
Hotel_from_dict_ok(data) == HotelRequired \subseteq DOMAIN data

\* from_dict that stops at the constructor: available_rooms and reservations
\* of the record are not read back
Hotel_from_dict_fresh(data) ==
    Hotel(data.hotel_id, data.name, data.location, data.total_rooms)

Hotel_from_dict(data) ==
    [Hotel(data.hotel_id, data.name, data.location, data.total_rooms)
        EXCEPT !.available_rooms =
                   IF "available_rooms" \in DOMAIN data
                   THEN data.available_rooms ELSE data.total_rooms,
               !.reservations =
                   IF "reservations" \in DOMAIN data
                   THEN data.reservations ELSE <<>>]

\* _load_hotels with the record's try around the whole loop: one bad record
\* and nothing is loaded
load_hotels_abort(file) ==
    IF file.kind # "json" THEN EmptyDict
    ELSE IF \E x \in DOMAIN file.data : ~Hotel_from_dict_ok(file.data[x])
    THEN EmptyDict
    ELSE [k \in DOMAIN file.data |-> Hotel_from_dict(file.data[k])]

load_hotels(file) ==
    IF file.kind # "json" THEN EmptyDict
    ELSE [k \in {x \in DOMAIN file.data : Hotel_from_dict_ok(file.data[x])}
            |-> Hotel_from_dict(file.data[k])]

save_hotels(file, hotels, w) ==
    WriteFile(file, [k \in DOMAIN hotels |-> Hotel_to_dict(hotels[k])], w)

create_hotel(file, hotel_id, name, location, total_rooms, w) ==
    LET hotels == load_hotels(file) IN
    IF hotel_id \in DOMAIN hotels
    THEN [ret |-> "None", file |-> file]
    ELSE [ret |-> "Hotel",
          file |-> save_hotels(file,
                      Put(hotels, hotel_id,
                          Hotel(hotel_id, name, location, total_rooms)), w)]

delete_hotel(file, hotel_id, w) ==
    LET hotels == load_hotels(file) IN
    IF hotel_id \notin DOMAIN hotels
    THEN [ret |-> "False", file |-> file]
    ELSE [ret |-> "True", file |-> save_hotels(file, Del(hotels, hotel_id), w)]

\* modify_hotel with the lower clamp on available_rooms left out
modify_hotel_noclamp(file, hotel_id, name, location, total_rooms, w) ==
    LET hotels == load_hotels(file) IN
    IF hotel_id \notin DOMAIN hotels
    THEN [ret |-> "False", file |-> file]
    ELSE LET hotel == hotels[hotel_id]
             h1 == IF Truthy(name) THEN [hotel EXCEPT !.name = name] ELSE hotel
             h2 == IF Truthy(location) THEN [h1 EXCEPT !.location = location]
                   ELSE h1
             h3 == IF total_rooms # <<>>
                   THEN LET diff == total_rooms[1] - h2.total_rooms IN
                        [h2 EXCEPT !.total_rooms = total_rooms[1],
                                   !.available_rooms =
                                       h2.available_rooms + diff]
                   ELSE h2
         IN [ret |-> "True",
             file |-> save_hotels(file, Put(hotels, hotel_id, h3), w)]

\* modify_hotel that resets available_rooms to the new total
modify_hotel_reset(file, hotel_id, name, location, total_rooms, w) ==
    LET hotels == load_hotels(file) IN
    IF hotel_id \notin DOMAIN hotels
    THEN [ret |-> "False", file |-> file]
    ELSE LET hotel == hotels[hotel_id]
             h1 == IF Truthy(name) THEN [hotel EXCEPT !.name = name] ELSE hotel
             h2 == IF Truthy(location) THEN [h1 EXCEPT !.location = location]
                   ELSE h1
             h3 == IF total_rooms # <<>>
                   THEN [h2 EXCEPT !.total_rooms = total_rooms[1],
                                   !.available_rooms = total_rooms[1]]
                   ELSE h2
         IN [ret |-> "True",
             file |-> save_hotels(file, Put(hotels, hotel_id, h3), w)]

\* total_rooms is <<>> for None and <<n>> for the integer n
modify_hotel(file, hotel_id, name, location, total_rooms, w) ==
    LET hotels == load_hotels(file) IN
    IF hotel_id \notin DOMAIN hotels
    THEN [ret |-> "False", file |-> file]
    ELSE LET hotel == hotels[hotel_id]
             h1 == IF Truthy(name) THEN [hotel EXCEPT !.name = name] ELSE hotel
             h2 == IF Truthy(location) THEN [h1 EXCEPT !.location = location]
                   ELSE h1
             h3 == IF total_rooms # <<>>
                   THEN LET diff == total_rooms[1] - h2.total_rooms IN
                        [h2 EXCEPT !.total_rooms = total_rooms[1],
                                   !.available_rooms =
                                       Max(0, h2.available_rooms + diff)]
                   ELSE h2
         IN [ret |-> "True",
             file |-> save_hotels(file, Put(hotels, hotel_id, h3), w)]

\* reserve_room that saves the hotel it changed and no other
reserve_room_alone(file, hotel_id, reservation_id, w) ==
    LET hotels == load_hotels(file) IN
    IF hotel_id \notin DOMAIN hotels
    THEN [ret |-> "False", file |-> file]
    ELSE LET hotel == hotels[hotel_id] IN
         IF hotel.available_rooms <= 0
         THEN [ret |-> "False", file |-> file]
         ELSE LET h1 == [hotel EXCEPT
                            !.available_rooms = @ - 1,
                            !.reservations = Append(@, reservation_id)]
              IN [ret |-> "True",
                  file |-> save_hotels(file, Put(EmptyDict, hotel_id, h1), w)]

\* reserve_room that records the occupant and saves before it tests for a
\* free room
reserve_room_eager(file, hotel_id, reservation_id, w) ==
    LET hotels == load_hotels(file) IN
    IF hotel_id \notin DOMAIN hotels
    THEN [ret |-> "False", file |-> file]
    ELSE LET hotel == hotels[hotel_id]
             h0 == [hotel EXCEPT
                       !.reservations = Append(@, reservation_id)]
         IN
         IF hotel.available_rooms <= 0
         THEN [ret |-> "False",
               file |-> save_hotels(file, Put(hotels, hotel_id, h0), w)]
         ELSE LET h1 == [h0 EXCEPT !.available_rooms = @ - 1]
              IN [ret |-> "True",
                  file |-> save_hotels(file, Put(hotels, hotel_id, h1), w)]

\* reserve_room with the availability test off by one (< instead of <=)
reserve_room_lt(file, hotel_id, reservation_id, w) ==
    LET hotels == load_hotels(file) IN
    IF hotel_id \notin DOMAIN hotels
    THEN [ret |-> "False", file |-> file]
    ELSE LET hotel == hotels[hotel_id] IN
         IF hotel.available_rooms < 0
         THEN [ret |-> "False", file |-> file]
         ELSE LET h1 == [hotel EXCEPT
                            !.available_rooms = @ - 1,
                            !.reservations = Append(@, reservation_id)]
              IN [ret |-> "True",
                  file |-> save_hotels(file, Put(hotels, hotel_id, h1), w)]

\* reserve_room that records the occupant but forgets the decrement
reserve_room_nodec(file, hotel_id, reservation_id, w) ==
    LET hotels == load_hotels(file) IN
    IF hotel_id \notin DOMAIN hotels
    THEN [ret |-> "False", file |-> file]
    ELSE LET hotel == hotels[hotel_id] IN
         IF hotel.available_rooms <= 0
         THEN [ret |-> "False", file |-> file]
         ELSE LET h1 == [hotel EXCEPT
                            !.reservations = Append(@, reservation_id)]
              IN [ret |-> "True",
                  file |-> save_hotels(file, Put(hotels, hotel_id, h1), w)]

reserve_room(file, hotel_id, reservation_id, w) ==
    LET hotels == load_hotels(file) IN
    IF hotel_id \notin DOMAIN hotels
    THEN [ret |-> "False", file |-> file]
    ELSE LET hotel == hotels[hotel_id] IN
         IF hotel.available_rooms <= 0
         THEN [ret |-> "False", file |-> file]
         ELSE LET h1 == [hotel EXCEPT
                            !.available_rooms = @ - 1,
                            !.reservations = Append(@, reservation_id)]
              IN [ret |-> "True",
                  file |-> save_hotels(file, Put(hotels, hotel_id, h1), w)]

\* cancel_room with the upper clamp on available_rooms left out
cancel_room_noclamp(file, hotel_id, reservation_id, w) ==
    LET hotels == load_hotels(file) IN
    IF hotel_id \notin DOMAIN hotels
    THEN [ret |-> "False", file |-> file]
    ELSE LET hotel == hotels[hotel_id] IN
         IF ~In(reservation_id, hotel.reservations)
         THEN [ret |-> "False", file |-> file]
         ELSE LET h1 == [hotel EXCEPT
                            !.reservations = ListRemove(@, reservation_id),
                            !.available_rooms = @ + 1]
              IN [ret |-> "True",
                  file |-> save_hotels(file, Put(hotels, hotel_id, h1), w)]

\* cancel_room that drops every occurrence of the id from the occupant list
cancel_room_removeall(file, hotel_id, reservation_id, w) ==
    LET hotels == load_hotels(file) IN
    IF hotel_id \notin DOMAIN hotels
    THEN [ret |-> "False", file |-> file]
    ELSE LET hotel == hotels[hotel_id] IN
         IF ~In(reservation_id, hotel.reservations)
         THEN [ret |-> "False", file |-> file]
         ELSE LET h1 == [hotel EXCEPT
                            !.reservations =
                                SelectSeq(@, LAMBDA r : r # reservation_id),
                            !.available_rooms =
                                Min(hotel.total_rooms, @ + 1)]
              IN [ret |-> "True",
                  file |-> save_hotels(file, Put(hotels, hotel_id, h1), w)]

cancel_room(file, hotel_id, reservation_id, w) ==
    LET hotels == load_hotels(file) IN
    IF hotel_id \notin DOMAIN hotels
    THEN [ret |-> "False", file |-> file]
    ELSE LET hotel == hotels[hotel_id] IN
         IF ~In(reservation_id, hotel.reservations)
         THEN [ret |-> "False", file |-> file]
         ELSE LET h1 == [hotel EXCEPT
                            !.reservations = ListRemove(@, reservation_id),
                            !.available_rooms =
                                Min(hotel.total_rooms, @ + 1)]
              IN [ret |-> "True",
                  file |-> save_hotels(file, Put(hotels, hotel_id, h1), w)]

\* --------------------------------------------------------------- Customer
Customer(customer_id, name, email, phone) ==
    [customer_id |-> customer_id, name |-> name, email |-> email,
     phone |-> phone]

Customer_to_dict(self) ==
    [customer_id |-> self.customer_id, name |-> self.name,
     email |-> self.email, phone |-> self.phone]

CustomerRequired == {"customer_id", "name", "email", "phone"}

Customer_from_dict_ok(data) == CustomerRequired \subseteq DOMAIN data

Customer_from_dict(data) ==
    Customer(data.customer_id, data.name, data.email, data.phone)

load_customers(file) ==
    IF file.kind # "json" THEN EmptyDict
    ELSE [k \in {x \in DOMAIN file.data : Customer_from_dict_ok(file.data[x])}
            |-> Customer_from_dict(file.data[k])]

save_customers(file, customers, w) ==
    WriteFile(file,
              [k \in DOMAIN customers |-> Customer_to_dict(customers[k])], w)

create_customer(file, customer_id, name, email, phone, w) ==
    LET customers == load_customers(file) IN
    IF customer_id \in DOMAIN customers
    THEN [ret |-> "None", file |-> file]
    ELSE [ret |-> "Customer",
          file |-> save_customers(file,
                      Put(customers, customer_id,
                          Customer(customer_id, name, email, phone)), w)]

delete_customer(file, customer_id, w) ==
    LET customers == load_customers(file) IN
    IF customer_id \notin DOMAIN customers
    THEN [ret |-> "False", file |-> file]
    ELSE [ret |-> "True",
          file |-> save_customers(file, Del(customers, customer_id), w)]

modify_customer(file, customer_id, name, email, phone, w) ==
    LET customers == load_customers(file) IN
    IF customer_id \notin DOMAIN customers
    THEN [ret |-> "False", file |-> file]
    ELSE LET customer == customers[customer_id]
             c1 == IF Truthy(name) THEN [customer EXCEPT !.name = name]
                   ELSE customer
             c2 == IF Truthy(email) THEN [c1 EXCEPT !.email = email] ELSE c1
             c3 == IF Truthy(phone) THEN [c2 EXCEPT !.phone = phone] ELSE c2
         IN [ret |-> "True",
             file |-> save_customers(file, Put(customers, customer_id, c3), w)]

\* ------------------------------------------------------------ Reservation
Reservation(reservation_id, customer_id, hotel_id, check_in, check_out) ==
    [reservation_id |-> reservation_id, customer_id |-> customer_id,
     hotel_id |-> hotel_id, check_in |-> check_in, check_out |-> check_out]

Reservation_to_dict(self) ==
    [reservation_id |-> self.reservation_id,
     customer_id |-> self.customer_id, hotel_id |-> self.hotel_id,
     check_in |-> self.check_in, check_out |-> self.check_out]

ReservationRequired ==
    {"reservation_id", "customer_id", "hotel_id", "check_in", "check_out"}

Reservation_from_dict_ok(data) == ReservationRequired \subseteq DOMAIN data

Reservation_from_dict(data) ==
    Reservation(data.reservation_id, data.customer_id, data.hotel_id,
                data.check_in, data.check_out)

load_reservations(file) ==
    IF file.kind # "json" THEN EmptyDict
    ELSE [k \in {x \in DOMAIN file.data :
                    Reservation_from_dict_ok(file.data[x])}
            |-> Reservation_from_dict(file.data[k])]

save_reservations(file, reservations, w) ==
    WriteFile(file,
              [k \in DOMAIN reservations |->
                  Reservation_to_dict(reservations[k])], w)

\* create_reservation that writes the record whatever reserve_room returned
create_reservation_unchecked(hfile, cfile, rfile, reservation_id, customer_id, hotel_id, check_in, check_out, wh, wr) ==
    LET reservations == load_reservations(rfile) IN
    IF reservation_id \in DOMAIN reservations
    THEN [ret |-> "None", room |-> None, hfile |-> hfile, rfile |-> rfile]
    ELSE LET customers == load_customers(cfile) IN
         IF customer_id \notin DOMAIN customers
         THEN [ret |-> "None", room |-> None, hfile |-> hfile,
               rfile |-> rfile]
         ELSE LET success == reserve_room(hfile, hotel_id, reservation_id, wh)
                  reservation ==
                      Reservation(reservation_id, customer_id,
                                  hotel_id, check_in, check_out)
              IN [ret |-> "Reservation", room |-> success.ret,
                  hfile |-> success.file,
                  rfile |-> save_reservations(rfile,
                               Put(reservations, reservation_id,
                                   reservation), wr)]

\* create_reservation that reserves the room before it looks up the customer
create_reservation_roomfirst(hfile, cfile, rfile, reservation_id, customer_id, hotel_id, check_in, check_out, wh, wr) ==
    LET reservations == load_reservations(rfile) IN
    IF reservation_id \in DOMAIN reservations
    THEN [ret |-> "None", room |-> None, hfile |-> hfile, rfile |-> rfile]
    ELSE LET success == reserve_room(hfile, hotel_id, reservation_id, wh)
             customers == load_customers(cfile)
         IN IF success.ret # "True"
            THEN [ret |-> "None", room |-> success.ret,
                  hfile |-> success.file, rfile |-> rfile]
            ELSE IF customer_id \notin DOMAIN customers
            THEN [ret |-> "None", room |-> success.ret,
                  hfile |-> success.file, rfile |-> rfile]
            ELSE LET reservation ==
                         Reservation(reservation_id, customer_id,
                                     hotel_id, check_in, check_out)
                 IN [ret |-> "Reservation", room |-> success.ret,
                     hfile |-> success.file,
                     rfile |-> save_reservations(rfile,
                                  Put(reservations, reservation_id,
                                      reservation), wr)]

\* create_reservation without the test for an id that is already there
create_reservation_nodup(hfile, cfile, rfile, reservation_id, customer_id, hotel_id, check_in, check_out, wh, wr) ==
    LET reservations == load_reservations(rfile)
        customers == load_customers(cfile)
    IN
    IF customer_id \notin DOMAIN customers
    THEN [ret |-> "None", room |-> None, hfile |-> hfile, rfile |-> rfile]
    ELSE LET success == reserve_room(hfile, hotel_id, reservation_id, wh)
         IN IF success.ret # "True"
            THEN [ret |-> "None", room |-> success.ret,
                  hfile |-> success.file, rfile |-> rfile]
            ELSE LET reservation ==
                         Reservation(reservation_id, customer_id,
                                     hotel_id, check_in, check_out)
                 IN [ret |-> "Reservation", room |-> success.ret,
                     hfile |-> success.file,
                     rfile |-> save_reservations(rfile,
                                  Put(reservations, reservation_id,
                                      reservation), wr)]

\* room is the value Hotel.reserve_room returned, None when it was not called;
\* wh and wr are the outcomes of the hotel and the reservation file writes
create_reservation(hfile, cfile, rfile, reservation_id, customer_id, hotel_id, check_in, check_out, wh, wr) ==
    LET reservations == load_reservations(rfile) IN
    IF reservation_id \in DOMAIN reservations
    THEN [ret |-> "None", room |-> None, hfile |-> hfile, rfile |-> rfile]
    ELSE LET customers == load_customers(cfile) IN
         IF customer_id \notin DOMAIN customers
         THEN [ret |-> "None", room |-> None, hfile |-> hfile,
               rfile |-> rfile]
         ELSE LET success == reserve_room(hfile, hotel_id, reservation_id, wh)
              IN IF success.ret # "True"
                 THEN [ret |-> "None", room |-> success.ret,
                       hfile |-> success.file, rfile |-> rfile]
                 ELSE LET reservation ==
                              Reservation(reservation_id, customer_id,
                                          hotel_id, check_in, check_out)
                      IN [ret |-> "Reservation", room |-> success.ret,
                          hfile |-> success.file,
                          rfile |-> save_reservations(rfile,
                                       Put(reservations, reservation_id,
                                           reservation), wr)]

\* cancel_reservation that gives up when the room could not be released
cancel_reservation_strict(hfile, rfile, reservation_id, wh, wr) ==
    LET reservations == load_reservations(rfile) IN
    IF reservation_id \notin DOMAIN reservations
    THEN [ret |-> "False", room |-> None, hfile |-> hfile, rfile |-> rfile]
    ELSE LET reservation == reservations[reservation_id]
             released == cancel_room(hfile, reservation.hotel_id,
                                     reservation_id, wh)
         IN IF released.ret # "True"
            THEN [ret |-> "False", room |-> released.ret, hfile |-> hfile,
                  rfile |-> rfile]
            ELSE [ret |-> "True", room |-> released.ret,
                  hfile |-> released.file,
                  rfile |-> save_reservations(rfile,
                               Del(reservations, reservation_id), wr)]

\* room is the value Hotel.cancel_room returned (it is discarded by the code)
cancel_reservation(hfile, rfile, reservation_id, wh, wr) ==
    LET reservations == load_reservations(rfile) IN
    IF reservation_id \notin DOMAIN reservations
    THEN [ret |-> "False", room |-> None, hfile |-> hfile, rfile |-> rfile]
    ELSE LET reservation == reservations[reservation_id]
             released == cancel_room(hfile, reservation.hotel_id,
                                     reservation_id, wh)
         IN [ret |-> "True", room |-> released.ret, hfile |-> released.file,
             rfile |-> save_reservations(rfile,
                          Del(reservations, reservation_id), wr)]

\* ---------------------------------------------------------------- actions
Call(op, hotel_id, customer_id, reservation_id, ret, room) ==
    [op |-> op, hotel_id |-> hotel_id, customer_id |-> customer_id,
     reservation_id |-> reservation_id, ret |-> ret, room |-> room,
     total_rooms |-> <<>>]

\* the occupant list an append would grow stays within the model's bound
RoomForOne(file, hotel_id) ==
    LET hotels == load_hotels(file) IN
    hotel_id \in DOMAIN hotels => Len(hotels[hotel_id].reservations) < MaxOcc

\* a caller: where it is in the call it is running, the call's arguments
\* and its local variables
Procs == {"p1", "p2"}

IdleProc ==
    [pc |-> "idle", op |-> None, reservation_id |-> None,
     customer_id |-> None, hotel_id |-> None, check_in |-> None,
     check_out |-> None, reservations |-> EmptyDict, hotels |-> EmptyDict,
     customers |-> EmptyDict, success |-> None, ret |-> None]

Idle == \A p \in Procs : proc[p].pc = "idle"

Init ==
    /\ hotelsFile = MissingFile
    /\ customersFile = MissingFile
    /\ reservationsFile = MissingFile
    /\ last = Call("init", None, None, None, None, None)
    /\ proc = [p \in Procs |-> IdleProc]

CreateHotelW(HS, W) ==
    \E h \in HS, n \in Names, l \in Locations, t \in RoomTotals, w \in W :
        LET r == create_hotel(hotelsFile, h, n, l, t, w) IN
        /\ hotelsFile' = r.file
        /\ last' = Call("create_hotel", h, None, None, r.ret, None)
        /\ UNCHANGED <<customersFile, reservationsFile, proc>>

DeleteHotelW(HS, W) ==
    \E h \in HS, w \in W :
        LET r == delete_hotel(hotelsFile, h, w) IN
        /\ hotelsFile' = r.file
        /\ last' = Call("delete_hotel", h, None, None, r.ret, None)
        /\ UNCHANGED <<customersFile, reservationsFile, proc>>

ModifyHotelW(HS, W) ==
    \E h \in HS, n \in Names \cup {None}, l \in Locations \cup {None},
       t \in {<<>>} \cup {<<x>> : x \in RoomTotals}, w \in W :
        LET r == modify_hotel(hotelsFile, h, n, l, t, w) IN
        /\ hotelsFile' = r.file
        /\ last' = [Call("modify_hotel", h, None, None, r.ret, None)
                        EXCEPT !.total_rooms = t]
        /\ UNCHANGED <<customersFile, reservationsFile, proc>>

ReserveRoomW(HS, W) ==
    \E h \in HS, x \in ReservationIds, w \in W :
        /\ RoomForOne(hotelsFile, h)
        /\ LET r == reserve_room(hotelsFile, h, x, w) IN
           /\ hotelsFile' = r.file
           /\ last' = Call("reserve_room", h, None, x, r.ret, None)
        /\ UNCHANGED <<customersFile, reservationsFile, proc>>

CancelRoomW(HS, W) ==
    \E h \in HS, x \in ReservationIds, w \in W :
        LET r == cancel_room(hotelsFile, h, x, w) IN
        /\ hotelsFile' = r.file
        /\ last' = Call("cancel_room", h, None, x, r.ret, None)
        /\ UNCHANGED <<customersFile, reservationsFile, proc>>

CreateCustomerW(W) ==
    \E c \in CustomerIds, n \in Names, e \in Emails, p \in Phones, w \in W :
        LET r == create_customer(customersFile, c, n, e, p, w) IN
        /\ customersFile' = r.file
        /\ last' = Call("create_customer", None, c, None, r.ret, None)
        /\ UNCHANGED <<hotelsFile, reservationsFile, proc>>

DeleteCustomerW(W) ==
    \E c \in CustomerIds, w \in W :
        LET r == delete_customer(customersFile, c, w) IN
        /\ customersFile' = r.file
        /\ last' = Call("delete_customer", None, c, None, r.ret, None)
        /\ UNCHANGED <<hotelsFile, reservationsFile, proc>>

ModifyCustomerW(W) ==
    \E c \in CustomerIds, n \in Names \cup {None}, e \in Emails \cup {None},
       p \in Phones \cup {None}, w \in W :
        LET r == modify_customer(customersFile, c, n, e, p, w) IN
        /\ customersFile' = r.file
        /\ last' = Call("modify_customer", None, c, None, r.ret, None)
        /\ UNCHANGED <<hotelsFile, reservationsFile, proc>>

CreateReservationW(HS, W) ==
    \E x \in ReservationIds, c \in CustomerIds, h \in HS,
       ci \in Dates, co \in Dates, wh \in W, wr \in W :
        /\ RoomForOne(hotelsFile, h)
        /\ LET r == create_reservation(hotelsFile, customersFile,
                                       reservationsFile, x, c, h, ci, co,
                                       wh, wr) IN
           /\ hotelsFile' = r.hfile
           /\ reservationsFile' = r.rfile
           /\ last' = Call("create_reservation", h, c, x, r.ret, r.room)
        /\ UNCHANGED <<customersFile, proc>>

CancelReservationW(W) ==
    \E x \in ReservationIds, wh \in W, wr \in W :
        LET r == cancel_reservation(hotelsFile, reservationsFile, x, wh, wr) IN
        /\ hotelsFile' = r.hfile
        /\ reservationsFile' = r.rfile
        /\ last' = Call("cancel_reservation", None, None, x, r.ret, r.room)
        /\ UNCHANGED <<customersFile, proc>>

\* every write succeeds
Ok == {"ok"}

\* ---- the whole system: the coordinator, the inventory manager and the
\* ---- customer store, over one hotel
OneHotel == {"H1"}

CreateHotel == CreateHotelW(OneHotel, Ok)

DeleteHotel == DeleteHotelW(OneHotel, Ok)

ModifyHotel == ModifyHotelW(OneHotel, Ok)

ReserveRoom == ReserveRoomW(OneHotel, Ok)

CancelRoom == CancelRoomW(OneHotel, Ok)

CreateCustomer == CreateCustomerW(Ok)

DeleteCustomer == DeleteCustomerW(Ok)

ModifyCustomer == ModifyCustomerW(Ok)

CreateReservation == CreateReservationW(OneHotel, Ok)

CancelReservation == CancelReservationW(Ok)

Next ==
    \/ CreateHotel
    \/ DeleteHotel
    \/ ModifyHotel
    \/ ReserveRoom
    \/ CancelRoom
    \/ CreateCustomer
    \/ DeleteCustomer
    \/ ModifyCustomer
    \/ CreateReservation
    \/ CancelReservation

Spec == Init /\ [][Next]_vars

\* ---- the inventory manager alone, over two hotels
HCreateHotel == CreateHotelW(HotelIds, Ok)

HDeleteHotel == DeleteHotelW(HotelIds, Ok)

HModifyHotel == ModifyHotelW(HotelIds, Ok)

HReserveRoom == ReserveRoomW(HotelIds, Ok)

HCancelRoom == CancelRoomW(HotelIds, Ok)

NextHotel ==
    \/ HCreateHotel
    \/ HDeleteHotel
    \/ HModifyHotel
    \/ HReserveRoom
    \/ HCancelRoom

SpecHotel == Init /\ [][NextHotel]_vars

\* ---- create_reservation statement by statement: every load and every
\* ---- save is a step of its own, the statements between them go with the
\* ---- load before them
CrCall(p, HS) ==
    \E x \in ReservationIds, c \in CustomerIds, h \in HS,
       ci \in Dates, co \in Dates :
        /\ proc[p].pc = "idle"
        /\ RoomForOne(hotelsFile, h)
        /\ proc' = [proc EXCEPT ![p] =
                       [IdleProc EXCEPT !.pc = "cr_load_reservations",
                                        !.op = "create_reservation",
                                        !.reservation_id = x,
                                        !.customer_id = c,
                                        !.hotel_id = h,
                                        !.check_in = ci,
                                        !.check_out = co]]
        /\ UNCHANGED <<hotelsFile, customersFile, reservationsFile, last>>

CrLoadReservations(p) ==
    /\ proc[p].pc = "cr_load_reservations"
    /\ LET reservations == load_reservations(reservationsFile) IN
       IF proc[p].reservation_id \in DOMAIN reservations
       THEN proc' = [proc EXCEPT ![p].pc = "return", ![p].ret = "None"]
       ELSE proc' = [proc EXCEPT ![p].pc = "cr_load_customers",
                                 ![p].reservations = reservations]
    /\ UNCHANGED <<hotelsFile, customersFile, reservationsFile, last>>

CrLoadCustomers(p) ==
    /\ proc[p].pc = "cr_load_customers"
    /\ LET customers == load_customers(customersFile) IN
       IF proc[p].customer_id \notin DOMAIN customers
       THEN proc' = [proc EXCEPT ![p].pc = "return", ![p].ret = "None"]
       ELSE proc' = [proc EXCEPT ![p].pc = "rr_load_hotels"]
    /\ UNCHANGED <<hotelsFile, customersFile, reservationsFile, last>>

\* where Hotel.reserve_room returns to: into create_reservation, or to the
\* caller of reserve_room itself
AfterRoom(p, success) ==
    IF proc[p].op = "create_reservation"
    THEN [proc EXCEPT ![p].pc = "cr_check", ![p].success = success]
    ELSE [proc EXCEPT ![p].pc = "return", ![p].success = success,
                      ![p].ret = success]

RrCall(p, HS) ==
    \E x \in ReservationIds, h \in HS :
        /\ proc[p].pc = "idle"
        /\ proc' = [proc EXCEPT ![p] =
                       [IdleProc EXCEPT !.pc = "rr_load_hotels",
                                        !.op = "reserve_room",
                                        !.reservation_id = x,
                                        !.hotel_id = h]]
        /\ UNCHANGED <<hotelsFile, customersFile, reservationsFile, last>>

\* reserve_room's availability test off by one (< instead of <=)
RrLoadHotels_lt(p) ==
    /\ proc[p].pc = "rr_load_hotels"
    /\ LET hotels == load_hotels(hotelsFile)
           hotel_id == proc[p].hotel_id
       IN
       IF hotel_id \notin DOMAIN hotels
       THEN proc' = AfterRoom(p, "False")
       ELSE IF hotels[hotel_id].available_rooms < 0
       THEN proc' = AfterRoom(p, "False")
       ELSE proc' = [proc EXCEPT
                        ![p].pc = "rr_save_hotels",
                        ![p].hotels =
                            Put(hotels, hotel_id,
                                [hotels[hotel_id] EXCEPT
                                    !.available_rooms = @ - 1,
                                    !.reservations =
                                        Append(@, proc[p].reservation_id)])]
    /\ UNCHANGED <<hotelsFile, customersFile, reservationsFile, last>>

RrLoadHotels(p) ==
    /\ proc[p].pc = "rr_load_hotels"
    /\ LET hotels == load_hotels(hotelsFile)
           hotel_id == proc[p].hotel_id
       IN
       IF hotel_id \notin DOMAIN hotels
       THEN proc' = AfterRoom(p, "False")
       ELSE IF hotels[hotel_id].available_rooms <= 0
       THEN proc' = AfterRoom(p, "False")
       ELSE proc' = [proc EXCEPT
                        ![p].pc = "rr_save_hotels",
                        ![p].hotels =
                            Put(hotels, hotel_id,
                                [hotels[hotel_id] EXCEPT
                                    !.available_rooms = @ - 1,
                                    !.reservations =
                                        Append(@, proc[p].reservation_id)])]
    /\ UNCHANGED <<hotelsFile, customersFile, reservationsFile, last>>

\* reserve_room that returns True without having written the hotels file
RrSaveHotels_nowrite(p, W) ==
    \E w \in W :
        /\ proc[p].pc = "rr_save_hotels"
        /\ proc' = AfterRoom(p, "True")
        /\ UNCHANGED <<hotelsFile, customersFile, reservationsFile, last>>

\* reserve_room that reads the file again before it writes and refuses when
\* the room has gone in the meantime
RrSaveHotels_recheck(p, W) ==
    \E w \in W :
        /\ proc[p].pc = "rr_save_hotels"
        /\ LET hotels == load_hotels(hotelsFile)
               hotel_id == proc[p].hotel_id
           IN IF hotel_id \in DOMAIN hotels
                 /\ hotels[hotel_id].available_rooms > 0
              THEN /\ hotelsFile' = save_hotels(hotelsFile, proc[p].hotels, w)
                   /\ proc' = AfterRoom(p, "True")
              ELSE /\ hotelsFile' = hotelsFile
                   /\ proc' = AfterRoom(p, "False")
        /\ UNCHANGED <<customersFile, reservationsFile, last>>

RrSaveHotels(p, W) ==
    \E w \in W :
        /\ proc[p].pc = "rr_save_hotels"
        /\ hotelsFile' = save_hotels(hotelsFile, proc[p].hotels, w)
        /\ proc' = AfterRoom(p, "True")
        /\ UNCHANGED <<customersFile, reservationsFile, last>>

\* the test of reserve_room's result left out: the record is built and
\* saved whatever reserve_room returned
CrCheck_unchecked(p) ==
    /\ proc[p].pc = "cr_check"
    /\ proc' = [proc EXCEPT
                   ![p].pc = "cr_save_reservations",
                   ![p].reservations =
                       Put(@, proc[p].reservation_id,
                           Reservation(proc[p].reservation_id,
                                       proc[p].customer_id,
                                       proc[p].hotel_id,
                                       proc[p].check_in,
                                       proc[p].check_out))]
    /\ UNCHANGED <<hotelsFile, customersFile, reservationsFile, last>>

CrCheck(p) ==
    /\ proc[p].pc = "cr_check"
    /\ IF proc[p].success # "True"
       THEN proc' = [proc EXCEPT ![p].pc = "return", ![p].ret = "None"]
       ELSE proc' = [proc EXCEPT
                        ![p].pc = "cr_save_reservations",
                        ![p].reservations =
                            Put(@, proc[p].reservation_id,
                                Reservation(proc[p].reservation_id,
                                            proc[p].customer_id,
                                            proc[p].hotel_id,
                                            proc[p].check_in,
                                            proc[p].check_out))]
    /\ UNCHANGED <<hotelsFile, customersFile, reservationsFile, last>>

\* create_reservation that loads the reservations file again at its save and
\* adds its record to what the file holds then
CrSaveReservations_merge(p, W) ==
    \E w \in W :
        /\ proc[p].pc = "cr_save_reservations"
        /\ reservationsFile'
               = save_reservations(
                     reservationsFile,
                     Put(load_reservations(reservationsFile),
                         proc[p].reservation_id,
                         proc[p].reservations[proc[p].reservation_id]), w)
        /\ proc' = [proc EXCEPT ![p].pc = "return",
                                ![p].ret = "Reservation"]
        /\ UNCHANGED <<hotelsFile, customersFile, last>>

CrSaveReservations(p, W) ==
    \E w \in W :
        /\ proc[p].pc = "cr_save_reservations"
        /\ reservationsFile'
               = save_reservations(reservationsFile, proc[p].reservations, w)
        /\ proc' = [proc EXCEPT ![p].pc = "return",
                                ![p].ret = "Reservation"]
        /\ UNCHANGED <<hotelsFile, customersFile, last>>

Return(p) ==
    /\ proc[p].pc = "return"
    /\ last' = Call(proc[p].op, proc[p].hotel_id, proc[p].customer_id,
                    proc[p].reservation_id, proc[p].ret, proc[p].success)
    /\ proc' = [proc EXCEPT ![p] = IdleProc]
    /\ UNCHANGED <<hotelsFile, customersFile, reservationsFile>>

\* ---- cancel_reservation statement by statement, Hotel.cancel_room inside
CxCall(p) ==
    \E x \in ReservationIds :
        /\ proc[p].pc = "idle"
        /\ proc' = [proc EXCEPT ![p] =
                       [IdleProc EXCEPT !.pc = "cx_load_reservations",
                                        !.op = "cancel_reservation",
                                        !.reservation_id = x]]
        /\ UNCHANGED <<hotelsFile, customersFile, reservationsFile, last>>

CxLoadReservations(p) ==
    /\ proc[p].pc = "cx_load_reservations"
    /\ LET reservations == load_reservations(reservationsFile) IN
       IF proc[p].reservation_id \notin DOMAIN reservations
       THEN proc' = [proc EXCEPT ![p].pc = "return", ![p].ret = "False"]
       ELSE proc' = [proc EXCEPT
                        ![p].pc = "cm_load_hotels",
                        ![p].reservations = reservations,
                        ![p].hotel_id =
                            reservations[proc[p].reservation_id].hotel_id]
    /\ UNCHANGED <<hotelsFile, customersFile, reservationsFile, last>>

CmLoadHotels(p) ==
    /\ proc[p].pc = "cm_load_hotels"
    /\ LET hotels == load_hotels(hotelsFile)
           hotel_id == proc[p].hotel_id
       IN
       IF hotel_id \notin DOMAIN hotels
       THEN proc' = [proc EXCEPT ![p].pc = "cx_save_reservations",
                                 ![p].success = "False"]
       ELSE IF ~In(proc[p].reservation_id, hotels[hotel_id].reservations)
       THEN proc' = [proc EXCEPT ![p].pc = "cx_save_reservations",
                                 ![p].success = "False"]
       ELSE proc' = [proc EXCEPT
                        ![p].pc = "cm_save_hotels",
                        ![p].hotels =
                            Put(hotels, hotel_id,
                                [hotels[hotel_id] EXCEPT
                                    !.reservations =
                                        ListRemove(@, proc[p].reservation_id),
                                    !.available_rooms =
                                        Min(hotels[hotel_id].total_rooms,
                                            @ + 1)])]
    /\ UNCHANGED <<hotelsFile, customersFile, reservationsFile, last>>

CmSaveHotels(p, W) ==
    \E w \in W :
        /\ proc[p].pc = "cm_save_hotels"
        /\ hotelsFile' = save_hotels(hotelsFile, proc[p].hotels, w)
        /\ proc' = [proc EXCEPT ![p].pc = "cx_save_reservations",
                                ![p].success = "True"]
        /\ UNCHANGED <<customersFile, reservationsFile, last>>

CxSaveReservations(p, W) ==
    \E w \in W :
        /\ proc[p].pc = "cx_save_reservations"
        /\ reservationsFile'
               = save_reservations(reservationsFile,
                                   Del(proc[p].reservations,
                                       proc[p].reservation_id), w)
        /\ proc' = [proc EXCEPT ![p].pc = "return", ![p].ret = "True"]
        /\ UNCHANGED <<hotelsFile, customersFile, last>>

\* the process dies between the save of the hotels file and the save of the
\* reservations file: its frame is gone, the files stay as they are
Crash(p) ==
    /\ proc[p].pc \in {"cr_check", "cr_save_reservations"}
    /\ proc[p].success = "True"
    /\ last' = Call("crash", proc[p].hotel_id, proc[p].customer_id,
                    proc[p].reservation_id, None, proc[p].success)
    /\ proc' = [proc EXCEPT ![p] = IdleProc]
    /\ UNCHANGED <<hotelsFile, customersFile, reservationsFile>>

\* ---- one caller at a time: create_reservation runs statement by statement,
\* ---- the other operations run between two calls of it
Caller == "p1"

SCreateHotel == Idle /\ CreateHotelW(OneHotel, Ok)

SDeleteHotel == Idle /\ DeleteHotelW(OneHotel, Ok)

SModifyHotel == Idle /\ ModifyHotelW(OneHotel, Ok)

SCreateCustomer == Idle /\ CreateCustomerW(Ok)

SDeleteCustomer == Idle /\ DeleteCustomerW(Ok)

SCancelRoom == Idle /\ CancelRoomW(OneHotel, Ok)

SCancelReservation == Idle /\ CancelReservationW(Ok)

SCrCall == CrCall(Caller, OneHotel)

SCrLoadReservations == CrLoadReservations(Caller)

SCrLoadCustomers == CrLoadCustomers(Caller)

SRrLoadHotels == RrLoadHotels(Caller)

SRrSaveHotels == RrSaveHotels(Caller, Ok)

SCrCheck == CrCheck(Caller)

SCrSaveReservations == CrSaveReservations(Caller, Ok)

SReturn == Return(Caller)

SCrash == Crash(Caller)

NextSteps ==
    \/ SCreateHotel
    \/ SDeleteHotel
    \/ SModifyHotel
    \/ SCreateCustomer
    \/ SDeleteCustomer
    \/ SCancelRoom
    \/ SCancelReservation
    \/ SCrCall
    \/ SCrLoadReservations
    \/ SCrLoadCustomers
    \/ SRrLoadHotels
    \/ SRrSaveHotels
    \/ SCrCheck
    \/ SCrSaveReservations
    \/ SReturn
    \/ SCrash

SpecSteps == Init /\ [][NextSteps]_vars

\* ---- the coordinator and the create/modify/delete operations, with file
\* ---- writes that may fail (the except OSError branches of the save methods)
FCreateHotel == CreateHotelW(OneHotel, WriteOutcomes)

FDeleteHotel == DeleteHotelW(OneHotel, WriteOutcomes)

FModifyHotel == ModifyHotelW(OneHotel, WriteOutcomes)

FCreateCustomer == CreateCustomerW(WriteOutcomes)

FDeleteCustomer == DeleteCustomerW(WriteOutcomes)

FModifyCustomer == ModifyCustomerW(WriteOutcomes)

FCreateReservation == CreateReservationW(OneHotel, WriteOutcomes)

FCancelReservation == CancelReservationW(WriteOutcomes)

NextCoordIO ==
    \/ FCreateHotel
    \/ FDeleteHotel
    \/ FModifyHotel
    \/ FCreateCustomer
    \/ FDeleteCustomer
    \/ FModifyCustomer
    \/ FCreateReservation
    \/ FCancelReservation

SpecCoordIO == Init /\ [][NextCoordIO]_vars

\* ------------------------------------------------------------- properties
\* what a load of each file returns in the current state
Hotels == load_hotels(hotelsFile)

Customers == load_customers(customersFile)

Reservations == load_reservations(reservationsFile)

RoomOps == {"reserve_room", "cancel_room"}

\* C1: immediately after a reserve_room or cancel_room call that returned
\* True, the hotel it named has
\* available_rooms = total_rooms - len(reservations).
C1_CountMatchesOccupancy ==
    (last.op \in RoomOps /\ last.ret = "True"
        /\ last.hotel_id \in DOMAIN Hotels)
    => LET hotel == Hotels[last.hotel_id] IN
       hotel.available_rooms = hotel.total_rooms - Len(hotel.reservations)

\* C2: a Reservation record R with hotel_id H is in the Reservation store
\* if and only if R is in the occupant list of hotel H in the Hotel store.
C2_RecordIffOccupant ==
    \A x \in ReservationIds, h \in HotelIds :
        (x \in DOMAIN Reservations /\ Reservations[x].hotel_id = h)
        <=> (h \in DOMAIN Hotels /\ In(x, Hotels[h].reservations))

\* C3: every Reservation record names a customer that is in the Customer
\* store and a hotel that is in the Hotel store.
C3_ReferencesExist ==
    \A x \in DOMAIN Reservations :
        /\ Reservations[x].customer_id \in DOMAIN Customers
        /\ Reservations[x].hotel_id \in DOMAIN Hotels

\* C4: every hotel in the Hotel store has
\* 0 <= available_rooms <= total_rooms.
C4_AvailableWithinTotal ==
    \A h \in DOMAIN Hotels :
        /\ 0 <= Hotels[h].available_rooms
        /\ Hotels[h].available_rooms <= Hotels[h].total_rooms

\* a modify_hotel that shrank the total below the occupancy has just run
C4_Witness ==
    /\ last.op = "modify_hotel"
    /\ last.ret = "True"
    /\ last.hotel_id \in DOMAIN Hotels
    /\ Hotels[last.hotel_id].total_rooms
           < Len(Hotels[last.hotel_id].reservations)
    /\ Hotels[last.hotel_id].available_rooms = 0

\* C6: cancel_reservation of an id that is in the Reservation store returns
\* True and the id is gone from the store afterwards, whether cancel_room
\* succeeded or not.
C6_CancelAlwaysRemoves ==
    [][\A x \in ReservationIds :
          (/\ last'.op = "cancel_reservation"
           /\ last'.reservation_id = x
           /\ x \in DOMAIN Reservations)
          => (/\ last'.ret = "True"
              /\ x \notin DOMAIN Reservations')]_vars

\* a cancel_reservation whose cancel_room failed has just returned True
C6_Witness ==
    /\ last.op = "cancel_reservation"
    /\ last.ret = "True"
    /\ last.room = "False"
    /\ last.reservation_id \notin DOMAIN Reservations

\* C7: reserve_room on a hotel whose available_rooms is 0 returns False and
\* leaves the Hotel store as it was.
C7_FullHotelRefuses ==
    [][\A h \in HotelIds :
          (/\ last'.op = "reserve_room"
           /\ last'.hotel_id = h
           /\ h \in DOMAIN Hotels
           /\ Hotels[h].available_rooms = 0)
          => (/\ last'.ret = "False"
              /\ hotelsFile' = hotelsFile)]_vars

\* reserve_room has just been refused on a full hotel, beside another hotel
C7_Witness ==
    /\ last.op = "reserve_room"
    /\ last.ret = "False"
    /\ last.hotel_id \in DOMAIN Hotels
    /\ Hotels[last.hotel_id].available_rooms = 0
    /\ Hotels[last.hotel_id].total_rooms > 0
    /\ DOMAIN Hotels = HotelIds

\* C8: reserve_room returns False for an absent hotel; on a hotel with
\* available_rooms > 0 it returns True, takes exactly 1 from
\* available_rooms, appends the reservation id to the occupant list and
\* keeps total_rooms.
C8_ReserveRoomEffect ==
    [][\A h \in HotelIds, x \in ReservationIds :
          (/\ last'.op = "reserve_room"
           /\ last'.hotel_id = h
           /\ last'.reservation_id = x)
          => (/\ h \notin DOMAIN Hotels => last'.ret = "False"
              /\ (h \in DOMAIN Hotels /\ Hotels[h].available_rooms > 0)
                 => (/\ last'.ret = "True"
                     /\ h \in DOMAIN Hotels'
                     /\ Hotels'[h].available_rooms
                            = Hotels[h].available_rooms - 1
                     /\ Hotels'[h].reservations
                            = Hotels[h].reservations \o <<x>>
                     /\ Hotels'[h].total_rooms = Hotels[h].total_rooms))]_vars

\* a reserve_room has just succeeded on a hotel that already had an occupant
C8_Witness ==
    /\ last.op = "reserve_room"
    /\ last.ret = "True"
    /\ last.hotel_id \in DOMAIN Hotels
    /\ Len(Hotels[last.hotel_id].reservations) = 2
    /\ Hotels[last.hotel_id].reservations[2] = last.reservation_id

\* new is old with one occurrence of x taken out
OneRemoved(old, new, x) ==
    \E i \in 1..Len(old) :
        /\ old[i] = x
        /\ new = SubSeq(old, 1, i - 1) \o SubSeq(old, i + 1, Len(old))

\* C9: cancel_room returns False and leaves the Hotel store as it was when
\* the hotel is absent or the id is not in its occupant list; otherwise it
\* returns True, removes one occurrence of the id and sets available_rooms
\* to min(total_rooms, available_rooms + 1).
C9_CancelRoomEffect ==
    [][\A h \in HotelIds, x \in ReservationIds :
          (/\ last'.op = "cancel_room"
           /\ last'.hotel_id = h
           /\ last'.reservation_id = x)
          => IF h \notin DOMAIN Hotels \/ ~In(x, Hotels[h].reservations)
             THEN /\ last'.ret = "False"
                  /\ hotelsFile' = hotelsFile
             ELSE /\ last'.ret = "True"
                  /\ h \in DOMAIN Hotels'
                  /\ OneRemoved(Hotels[h].reservations,
                                Hotels'[h].reservations, x)
                  /\ Hotels'[h].available_rooms
                         = IF Hotels[h].available_rooms + 1
                                  <= Hotels[h].total_rooms
                           THEN Hotels[h].available_rooms + 1
                           ELSE Hotels[h].total_rooms]_vars

\* a cancel_room has just succeeded and left another occupant in the hotel
C9_Witness ==
    /\ last.op = "cancel_room"
    /\ last.ret = "True"
    /\ last.hotel_id \in DOMAIN Hotels
    /\ Len(Hotels[last.hotel_id].reservations) = 1

\* hotel h has one room in all, taken by x1 alone, and x1's record names h
FullOfOne(h, x1) ==
    /\ h \in DOMAIN Hotels
    /\ Hotels[h].total_rooms = 1
    /\ Hotels[h].available_rooms = 0
    /\ Hotels[h].reservations = <<x1>>
    /\ x1 \in DOMAIN Reservations
    /\ Reservations[x1].hotel_id = h

\* C10: on a hotel created with exactly 1 room and an existing customer, a
\* first create_reservation succeeds and leaves available_rooms = 0; a
\* following create_reservation of a second id fails and creates no record;
\* a following cancel_reservation of the first id succeeds and leaves
\* available_rooms = 1.
C10_OneRoomScenario ==
    [][\A h \in HotelIds, c \in CustomerIds, x \in ReservationIds :
          /\ (/\ last'.op = "create_reservation"
              /\ last'.hotel_id = h
              /\ last'.customer_id = c
              /\ last'.reservation_id = x
              /\ c \in DOMAIN Customers
              /\ x \notin DOMAIN Reservations
              /\ h \in DOMAIN Hotels
              /\ Hotels[h].total_rooms = 1
              /\ Hotels[h].available_rooms = 1
              /\ Hotels[h].reservations = <<>>)
             => (/\ last'.ret = "Reservation"
                 /\ FullOfOne(h, x)')
          /\ \A x1 \in ReservationIds \ {x} :
                (/\ last'.op = "create_reservation"
                 /\ last'.hotel_id = h
                 /\ last'.customer_id = c
                 /\ last'.reservation_id = x
                 /\ c \in DOMAIN Customers
                 /\ x \notin DOMAIN Reservations
                 /\ FullOfOne(h, x1))
                => (/\ last'.ret = "None"
                    /\ x \notin DOMAIN Reservations'
                    /\ FullOfOne(h, x1)')
          /\ (/\ last'.op = "cancel_reservation"
              /\ last'.reservation_id = x
              /\ FullOfOne(h, x))
             => (/\ last'.ret = "True"
                 /\ x \notin DOMAIN Reservations'
                 /\ h \in DOMAIN Hotels'
                 /\ Hotels'[h].available_rooms = 1)]_vars

\* the first reservation of a one-room hotel has just been cancelled: the
\* room is free again and the record is gone
C10_Witness ==
    /\ last.op = "cancel_reservation"
    /\ last.ret = "True"
    /\ last.room = "True"
    /\ last.reservation_id \notin DOMAIN Reservations
    /\ \E h \in DOMAIN Hotels :
          /\ Hotels[h].total_rooms = 1
          /\ Hotels[h].available_rooms = 1
          /\ Hotels[h].reservations = <<>>
    /\ Customers # EmptyDict

\* C5: while create_reservation runs, the Reservation store is written only
\* by its final save, only after reserve_room returned True for the call's
\* hotel and reservation id (the id is then in that hotel's occupant list);
\* when reserve_room returned False the call returns None and never writes
\* the Reservation store.
C5_RecordOnlyAfterRoom ==
    [][\A p \in Procs :
          proc[p].op = "create_reservation"
          => (/\ reservationsFile' # reservationsFile
                 => (/\ proc[p].pc = "cr_save_reservations"
                     /\ proc[p].success = "True"
                     /\ proc[p].hotel_id \in DOMAIN Hotels
                     /\ In(proc[p].reservation_id,
                           Hotels[proc[p].hotel_id].reservations))
              /\ proc[p].success = "False"
                 => reservationsFile' = reservationsFile
              /\ (proc'[p].pc = "return" /\ proc'[p].success = "False")
                 => proc'[p].ret = "None")]_vars

\* create_reservation has written its record and is about to return it
C5_Witness ==
    /\ proc[Caller].pc = "return"
    /\ proc[Caller].op = "create_reservation"
    /\ proc[Caller].ret = "Reservation"
    /\ proc[Caller].success = "True"
    /\ proc[Caller].reservation_id \in DOMAIN Reservations
    /\ proc[Caller].hotel_id \in DOMAIN Hotels
    /\ In(proc[Caller].reservation_id,
          Hotels[proc[Caller].hotel_id].reservations)

\* C11: create_reservation with a customer_id that is not in the Customer
\* store returns None and changes neither the Hotel store nor the
\* Reservation store.
C11_GhostCustomerNoChange ==
    [][\A c \in CustomerIds :
          (/\ last'.op = "create_reservation"
           /\ last'.customer_id = c
           /\ c \notin DOMAIN Customers)
          => (/\ last'.ret = "None"
              /\ hotelsFile' = hotelsFile
              /\ reservationsFile' = reservationsFile)]_vars

\* a create_reservation has just been refused for its customer alone: the
\* id was free and the hotel had a room
C11_Witness ==
    /\ last.op = "create_reservation"
    /\ last.ret = "None"
    /\ last.customer_id \notin DOMAIN Customers
    /\ last.reservation_id \notin DOMAIN Reservations
    /\ last.hotel_id \in DOMAIN Hotels
    /\ Hotels[last.hotel_id].available_rooms > 0

\* C12: create_reservation with a reservation_id that is already in the
\* Reservation store returns None, leaves the existing record as it was and
\* leaves the Hotel store unchanged.
C12_DuplicateIdNoChange ==
    [][\A x \in ReservationIds :
          (/\ last'.op = "create_reservation"
           /\ last'.reservation_id = x
           /\ x \in DOMAIN Reservations)
          => (/\ last'.ret = "None"
              /\ x \in DOMAIN Reservations'
              /\ Reservations'[x] = Reservations[x]
              /\ hotelsFile' = hotelsFile)]_vars

\* a create_reservation has just been refused for its id alone: another
\* customer asked, that customer exists and the hotel had a room
C12_Witness ==
    /\ last.op = "create_reservation"
    /\ last.ret = "None"
    /\ last.reservation_id \in DOMAIN Reservations
    /\ last.customer_id \in DOMAIN Customers
    /\ Reservations[last.reservation_id].customer_id # last.customer_id
    /\ last.hotel_id \in DOMAIN Hotels
    /\ Hotels[last.hotel_id].available_rooms > 0

\* why create_reservation(x, c, h, ...) fails in the current state, in the
\* order of the checks; "ok" when it does not fail
Cause(x, c, h) ==
    IF x \in DOMAIN Reservations THEN "AlreadyExists"
    ELSE IF c \notin DOMAIN Customers THEN "CustomerNotFound"
    ELSE IF h \notin DOMAIN Hotels THEN "HotelNotFound"
    ELSE IF Hotels[h].available_rooms <= 0 THEN "NoAvailability"
    ELSE "ok"

Returned(x, c, h) ==
    LET d == CHOOSE d \in Dates : TRUE IN
    create_reservation(hotelsFile, customersFile, reservationsFile,
                       x, c, h, d, d, "ok", "ok").ret

\* C13: two create_reservation calls that fail for different causes return
\* different values: the cause can be told from the returned value alone.
C13_FailuresDistinguishable ==
    \A x1 \in ReservationIds, x2 \in ReservationIds,
       c1 \in CustomerIds, c2 \in CustomerIds,
       h1 \in HotelIds, h2 \in HotelIds :
        (/\ Cause(x1, c1, h1) # "ok"
         /\ Cause(x2, c2, h2) # "ok"
         /\ Cause(x1, c1, h1) # Cause(x2, c2, h2))
        => Returned(x1, c1, h1) # Returned(x2, c2, h2)

\* C14: an operation that reports success has persisted its mutation: after
\* a create_reservation that returned a Reservation the record is in the
\* Reservation store and the id is in the hotel's occupant list; after a
\* cancel_reservation that returned True the record is gone.
C14_SuccessMeansPersisted ==
    /\ (last.op = "create_reservation" /\ last.ret = "Reservation")
       => (/\ last.reservation_id \in DOMAIN Reservations
           /\ last.hotel_id \in DOMAIN Hotels
           /\ In(last.reservation_id, Hotels[last.hotel_id].reservations))
    /\ (last.op = "cancel_reservation" /\ last.ret = "True")
       => last.reservation_id \notin DOMAIN Reservations

\* C15: modify_hotel(h, total_rooms = n) on an existing hotel sets
\* total_rooms to n and available_rooms to max(0, available_rooms + (n - old
\* total_rooms)) and leaves the occupant list as it was; when the total does
\* not shrink, available_rooms grows by exactly the difference.
C15_ModifyTotalRooms ==
    [][\A h \in HotelIds, n \in RoomTotals :
          (/\ last'.op = "modify_hotel"
           /\ last'.hotel_id = h
           /\ last'.total_rooms = <<n>>
           /\ h \in DOMAIN Hotels)
          => (/\ last'.ret = "True"
              /\ h \in DOMAIN Hotels'
              /\ Hotels'[h].total_rooms = n
              /\ LET moved == Hotels[h].available_rooms
                                  + (n - Hotels[h].total_rooms)
                 IN Hotels'[h].available_rooms
                        = (IF moved >= 0 THEN moved ELSE 0)
              /\ Hotels'[h].reservations = Hotels[h].reservations
              /\ n >= Hotels[h].total_rooms
                 => Hotels'[h].available_rooms
                        = Hotels[h].available_rooms
                              + (n - Hotels[h].total_rooms))]_vars

\* modify_hotel has just set the total of a hotel that has occupants to 0
C15_Witness ==
    /\ last.op = "modify_hotel"
    /\ last.ret = "True"
    /\ last.total_rooms = <<0>>
    /\ last.hotel_id \in DOMAIN Hotels
    /\ Hotels[last.hotel_id].total_rooms = 0
    /\ Hotels[last.hotel_id].reservations # <<>>

\* ---- every operation, one at a time, on a hotel created with TripRooms
\* ---- rooms: room for two occupants and a third reservation
CreateHotelT ==
    \E h \in OneHotel, n \in Names, l \in Locations :
        LET r == create_hotel(hotelsFile, h, n, l, TripRooms, "ok") IN
        /\ hotelsFile' = r.file
        /\ last' = Call("create_hotel", h, None, None, r.ret, None)
        /\ UNCHANGED <<customersFile, reservationsFile, proc>>

NextTrip ==
    \/ CreateHotelT
    \/ DeleteHotel
    \/ ModifyHotel
    \/ ReserveRoom
    \/ CancelRoom
    \/ CreateCustomer
    \/ DeleteCustomer
    \/ CreateReservation
    \/ CancelReservation

SpecTrip == Init /\ [][NextTrip]_vars

\* create_reservation(x, c, h, ...) immediately followed by
\* cancel_reservation(x), run from the current state
RoundTrip(x, c, h) ==
    LET d == CHOOSE d \in Dates : TRUE
        made == create_reservation(hotelsFile, customersFile,
                                   reservationsFile, x, c, h, d, d,
                                   "ok", "ok")
        undone == cancel_reservation(made.hfile, made.rfile, x, "ok", "ok")
    IN [created |-> made.ret, cancelled |-> undone.ret,
        hotels |-> load_hotels(undone.hfile),
        reservations |-> load_reservations(undone.rfile)]

\* the state the round trip is claimed for: x has no record, the customer
\* exists and the hotel has a room
CanRoundTrip(x, c, h) ==
    /\ x \notin DOMAIN Reservations
    /\ c \in DOMAIN Customers
    /\ h \in DOMAIN Hotels
    /\ Hotels[h].available_rooms > 0

Count(list, e) == Cardinality({i \in 1..Len(list) : list[i] = e})

\* C19 as stated: from every state where x has no record, the customer
\* exists and the hotel has a room, create_reservation(x) followed by
\* cancel_reservation(x) gives back exactly the Hotel store (available_rooms,
\* total_rooms, occupant list) and the Reservation store it started from.
C19_RoundTripExact ==
    \A x \in ReservationIds, c \in CustomerIds, h \in HotelIds :
        CanRoundTrip(x, c, h)
        => (/\ RoundTrip(x, c, h).created = "Reservation"
            /\ RoundTrip(x, c, h).cancelled = "True"
            /\ RoundTrip(x, c, h).hotels = Hotels
            /\ RoundTrip(x, c, h).reservations = Reservations)

\* C19 amended: the round trip gives back the Reservation store, every other
\* hotel, and the hotel's total_rooms, available_rooms, name and location
\* exactly; its occupant list has the same ids the same number of times, and
\* is the same list when x was not already an occupant.
C19_RoundTripUpToOrder ==
    \A x \in ReservationIds, c \in CustomerIds, h \in HotelIds :
        CanRoundTrip(x, c, h)
        => LET after == RoundTrip(x, c, h) IN
           /\ after.created = "Reservation"
           /\ after.cancelled = "True"
           /\ after.reservations = Reservations
           /\ DOMAIN after.hotels = DOMAIN Hotels
           /\ \A g \in DOMAIN Hotels : g # h => after.hotels[g] = Hotels[g]
           /\ [after.hotels[h] EXCEPT !.reservations = <<>>]
                  = [Hotels[h] EXCEPT !.reservations = <<>>]
           /\ \A e \in ReservationIds :
                  Count(after.hotels[h].reservations, e)
                      = Count(Hotels[h].reservations, e)
           /\ ~In(x, Hotels[h].reservations)
              => after.hotels[h].reservations = Hotels[h].reservations

\* a state the round trip can start from in which x is already an occupant
\* behind nobody and another id follows it: the round trip moves x to the end
C19_Witness ==
    \E x \in ReservationIds, c \in CustomerIds, h \in HotelIds :
        /\ CanRoundTrip(x, c, h)
        /\ In(x, Hotels[h].reservations)
        /\ RoundTrip(x, c, h).cancelled = "True"
        /\ RoundTrip(x, c, h).hotels[h].reservations
               # Hotels[h].reservations

\* ---- loading files that were not written by the program: each record is
\* ---- one the program writes, one without the optional keys, or one that
\* ---- lacks a required key
StoreKeys == {"K1", "K2", "K3"}

Drop(data, key) == [f \in DOMAIN data \ {key} |-> data[f]]

HotelRecords(k) ==
    LET written == {Hotel_to_dict(Hotel(k, n, l, t)) :
                        n \in Names, l \in Locations, t \in RoomTotals}
    IN written
       \cup {Drop(Drop(v, "available_rooms"), "reservations") : v \in written}
       \cup {Drop(v, f) : v \in written, f \in HotelRequired}

CustomerRecords(k) ==
    LET written == {Customer_to_dict(Customer(k, n, e, ph)) :
                        n \in Names, e \in Emails, ph \in Phones}
    IN written \cup {Drop(v, f) : v \in written, f \in CustomerRequired}

ReservationRecords(k) ==
    LET written == {Reservation_to_dict(Reservation(k, c, h, d, d)) :
                        c \in CustomerIds, h \in HotelIds, d \in Dates}
    IN written \cup {Drop(v, f) : v \in written, f \in ReservationRequired}

\* the files whose top-level object maps some keys k to records of records[k]
StoredFiles(records) ==
    {JsonFile(d) :
        d \in UNION {{m \in [S -> UNION {records[k] : k \in S}] :
                         \A k \in S : m[k] \in records[k]} :
                     S \in SUBSET StoreKeys}}

InitLoad ==
    /\ \/ /\ hotelsFile \in StoredFiles([k \in StoreKeys |-> HotelRecords(k)])
          /\ customersFile = MissingFile
          /\ reservationsFile = MissingFile
       \/ /\ hotelsFile = MissingFile
          /\ customersFile \in StoredFiles([k \in StoreKeys |-> CustomerRecords(k)])
          /\ reservationsFile = MissingFile
       \/ /\ hotelsFile = MissingFile
          /\ customersFile = MissingFile
          /\ reservationsFile \in StoredFiles([k \in StoreKeys |-> ReservationRecords(k)])
    /\ last = Call("init", None, None, None, None, None)
    /\ proc = [p \in Procs |-> IdleProc]

LoadHotels(p) ==
    /\ proc[p].pc \in {"idle", "loaded"}
    /\ proc' = [proc EXCEPT ![p] =
                   [IdleProc EXCEPT !.pc = "loaded", !.op = "_load_hotels",
                                    !.hotels = load_hotels(hotelsFile)]]
    /\ UNCHANGED <<hotelsFile, customersFile, reservationsFile, last>>

LoadCustomers(p) ==
    /\ proc[p].pc \in {"idle", "loaded"}
    /\ proc' = [proc EXCEPT ![p] =
                   [IdleProc EXCEPT !.pc = "loaded", !.op = "_load_customers",
                                    !.customers =
                                        load_customers(customersFile)]]
    /\ UNCHANGED <<hotelsFile, customersFile, reservationsFile, last>>

LoadReservations(p) ==
    /\ proc[p].pc \in {"idle", "loaded"}
    /\ proc' = [proc EXCEPT ![p] =
                   [IdleProc EXCEPT !.pc = "loaded",
                                    !.op = "_load_reservations",
                                    !.reservations =
                                        load_reservations(reservationsFile)]]
    /\ UNCHANGED <<hotelsFile, customersFile, reservationsFile, last>>

NextLoad ==
    \/ LoadHotels(Caller)
    \/ LoadCustomers(Caller)
    \/ LoadReservations(Caller)

SpecLoad == InitLoad /\ [][NextLoad]_vars

\* the keys of data whose record lacks one of the required keys
Malformed(data, required) ==
    {k \in DOMAIN data : ~(required \subseteq DOMAIN data[k])}

\* exactly one record of data is malformed and loaded holds the others, and
\* only them, under their keys with the values of the file
SkipsTheOne(data, required, loaded) ==
    Cardinality(Malformed(data, required)) = 1
    => (/\ DOMAIN loaded = DOMAIN data \ Malformed(data, required)
        /\ Cardinality(DOMAIN loaded) = Cardinality(DOMAIN data) - 1
        /\ \A k \in DOMAIN loaded :
               \A f \in required : loaded[k][f] = data[k][f])

\* C20: loading a store whose file holds N valid records and one record that
\* lacks a required field returns exactly the N valid records under their
\* keys, for the Hotel, the Customer and the Reservation store.
C20_LoadSkipsMalformed ==
    LET p == proc[Caller] IN
    p.pc = "loaded"
    => (/\ p.op = "_load_hotels"
           => SkipsTheOne(hotelsFile.data, HotelRequired, p.hotels)
        /\ p.op = "_load_customers"
           => SkipsTheOne(customersFile.data, CustomerRequired, p.customers)
        /\ p.op = "_load_reservations"
           => SkipsTheOne(reservationsFile.data, ReservationRequired,
                          p.reservations))

\* a hotels file of three records, one of them malformed, has been loaded
C20_Witness ==
    /\ proc[Caller].pc = "loaded"
    /\ proc[Caller].op = "_load_hotels"
    /\ Cardinality(DOMAIN hotelsFile.data) = 3
    /\ Cardinality(Malformed(hotelsFile.data, HotelRequired)) = 1
    /\ Cardinality(DOMAIN proc[Caller].hotels) = 2

\* C18: when create_reservation(x, c, h, ...) dies after Hotel.reserve_room
\* has committed and before the reservations file is written, x is in h's
\* occupant list, h's available_rooms is the decremented one and there is no
\* record x; the commit itself took one room; and afterwards no step takes an
\* id without a record out of the occupant list, unless it is a
\* cancel_room(h, x) or a delete_hotel(h) that was asked for.
C18_CrashWindow ==
    [][/\ \A x \in ReservationIds, h \in HotelIds :
              (/\ last'.op = "crash"
               /\ proc[Caller].pc # "idle"
               /\ proc'[Caller].pc = "idle"
               /\ last'.reservation_id = x
               /\ last'.hotel_id = h)
              => (/\ hotelsFile' = hotelsFile
                  /\ reservationsFile' = reservationsFile
                  /\ h \in DOMAIN Hotels'
                  /\ In(x, Hotels'[h].reservations)
                  /\ Hotels'[h] = proc[Caller].hotels[h]
                  /\ x \notin DOMAIN Reservations')
       /\ \A h \in HotelIds :
              (/\ proc[Caller].pc = "rr_save_hotels"
               /\ proc'[Caller].pc = "cr_check"
               /\ proc[Caller].hotel_id = h)
              => (/\ h \in DOMAIN Hotels /\ h \in DOMAIN Hotels'
                  /\ Hotels'[h].available_rooms
                         = Hotels[h].available_rooms - 1
                  /\ Hotels'[h].reservations
                         = Append(Hotels[h].reservations,
                                  proc[Caller].reservation_id))
       /\ \A x \in ReservationIds, h \in HotelIds :
              (/\ h \in DOMAIN Hotels
               /\ In(x, Hotels[h].reservations)
               /\ x \notin DOMAIN Reservations)
              => \/ /\ h \in DOMAIN Hotels'
                    /\ Count(Hotels'[h].reservations, x)
                           >= Count(Hotels[h].reservations, x)
                 \/ /\ last'.op = "cancel_room"
                    /\ last'.hotel_id = h
                    /\ last'.reservation_id = x
                    /\ proc[Caller].pc = "idle"
                 \/ /\ last'.op = "delete_hotel"
                    /\ last'.hotel_id = h
                    /\ proc[Caller].pc = "idle"]_vars

\* create_reservation has just died in the window: the hotel's only room is
\* taken by an id that has no record
C18_Witness ==
    /\ last.op = "crash"
    /\ last.hotel_id \in DOMAIN Hotels
    /\ In(last.reservation_id, Hotels[last.hotel_id].reservations)
    /\ Hotels[last.hotel_id].available_rooms = 0
    /\ Hotels[last.hotel_id].total_rooms = 1
    /\ last.reservation_id \notin DOMAIN Reservations

\* ---- two callers of Hotel.reserve_room whose loads and saves interleave
NextRace ==
    \/ Idle /\ CreateHotelW(OneHotel, Ok)
    \/ \E p \in Procs : RrCall(p, OneHotel)
    \/ \E p \in Procs : RrLoadHotels(p)
    \/ \E p \in Procs : RrSaveHotels(p, Ok)
    \/ \E p \in Procs : Return(p)

SpecRace == Init /\ [][NextRace]_vars

\* C16: with the loads and saves of two reserve_room calls interleaving, a
\* caller that saw a free room at its load returns True at its save and the
\* file then holds that caller's view, whatever was committed in between:
\* two calls for the one room of a hotel can both return success.
C16_SaveCommitsStaleView ==
    [][\A p \in Procs :
          (/\ proc[p].pc = "rr_save_hotels"
           /\ proc'[p].pc # "rr_save_hotels")
          => (/\ proc'[p].pc = "return"
              /\ proc'[p].ret = "True"
              /\ Hotels' = proc[p].hotels)]_vars

\* the oversell: both calls, for different ids, are about to return True
\* for a hotel that has one room in all
C16_Witness ==
    /\ \A p \in Procs :
           /\ proc[p].pc = "return"
           /\ proc[p].op = "reserve_room"
           /\ proc[p].ret = "True"
    /\ proc["p1"].hotel_id = proc["p2"].hotel_id
    /\ proc["p1"].reservation_id # proc["p2"].reservation_id
    /\ proc["p1"].hotel_id \in DOMAIN Hotels
    /\ Hotels[proc["p1"].hotel_id].total_rooms = 1
    /\ Hotels[proc["p1"].hotel_id].available_rooms = 0
    /\ Len(Hotels[proc["p1"].hotel_id].reservations) = 1

\* ---- one lock per store around each load-mutate-save cycle. A caller holds
\* ---- a store's lock from its load of the store to its save (or to the
\* ---- return that gives the save up), so the lock is read off its pc: the
\* ---- Reservation cycle of create_reservation and cancel_reservation
\* ---- encloses the Hotel cycle of reserve_room and cancel_room
ReservationSection ==
    {"cr_load_customers", "rr_load_hotels", "rr_save_hotels", "cr_check",
     "cr_save_reservations", "cm_load_hotels", "cm_save_hotels",
     "cx_save_reservations"}

HotelSection == {"rr_save_hotels", "cm_save_hotels"}

\* nobody else is inside the section: p may take the lock
Free(p, section) == \A q \in Procs \ {p} : proc[q].pc \notin section

\* the steps of a call in progress, each load taking the lock of its store
LockedStep(p) ==
    \/ Free(p, ReservationSection) /\ CrLoadReservations(p)
    \/ CrLoadCustomers(p)
    \/ Free(p, HotelSection) /\ RrLoadHotels(p)
    \/ RrSaveHotels(p, Ok)
    \/ CrCheck(p)
    \/ CrSaveReservations(p, Ok)
    \/ Free(p, ReservationSection) /\ CxLoadReservations(p)
    \/ Free(p, HotelSection) /\ CmLoadHotels(p)
    \/ CmSaveHotels(p, Ok)
    \/ CxSaveReservations(p, Ok)
    \/ Return(p)

NextLocks ==
    \/ Idle /\ CreateHotelW(OneHotel, Ok)
    \/ Idle /\ CreateCustomerW(Ok)
    \/ \E p \in Procs : CrCall(p, OneHotel)
    \/ \E p \in Procs : CxCall(p)
    \/ \E p \in Procs : LockedStep(p)

SpecLocks == Init /\ [][NextLocks]_vars

\* the records of the Reservation store that hold a room of h
Booked(h) == {x \in DOMAIN Reservations : Reservations[x].hotel_id = h}

\* C17: with one lock per store around every load-mutate-save cycle, under
\* every interleaving of create_reservation and cancel_reservation calls
\* (a) a hotel never has more records than total_rooms, (b) a record leaves
\* the Reservation store only by the save of a cancel_reservation of its id,
\* and stays as written until then, and (c) whenever a call is in progress
\* some call in progress can take a step.
C17_LocksSuffice ==
    /\ [](\A h \in DOMAIN Hotels :
              Cardinality(Booked(h)) <= Hotels[h].total_rooms)
    /\ [][\A x \in DOMAIN Reservations :
              \/ /\ x \in DOMAIN Reservations'
                 /\ Reservations'[x] = Reservations[x]
              \/ \E p \in Procs :
                     /\ proc[p].op = "cancel_reservation"
                     /\ proc[p].reservation_id = x
                     /\ proc[p].pc = "cx_save_reservations"
                     /\ proc'[p].pc = "return"]_vars
    /\ []((\E p \in Procs : proc[p].pc # "idle")
              => \E p \in Procs : ENABLED LockedStep(p))

\* contention for the one room: a caller is inside reserve_room for a hotel
\* of one room while the other, with another id for the same hotel, waits
\* for the Reservation lock
C17_Witness ==
    /\ proc["p1"].pc = "rr_save_hotels"
    /\ proc["p2"].pc = "cr_load_reservations"
    /\ proc["p1"].hotel_id = proc["p2"].hotel_id
    /\ proc["p1"].reservation_id # proc["p2"].reservation_id
    /\ proc["p2"].customer_id \in DOMAIN Customers
    /\ proc["p1"].hotel_id \in DOMAIN Hotels
    /\ Hotels[proc["p1"].hotel_id].total_rooms = 1

\* ---- to_dict and from_dict on entity values: p1 holds the objects, saves
\* ---- them (to_dict of each), p2 loads the files (from_dict of each)
Holder == "p1"
Reader == "p2"

\* the occupant lists of at most MaxOcc ids
OccupantLists == UNION {[1..n -> ReservationIds] : n \in 0..MaxOcc}

HotelValues ==
    {[Hotel(h, n, l, t) EXCEPT !.available_rooms = a, !.reservations = rs] :
        h \in HotelIds, n \in Names, l \in Locations,
        t \in RoomTotals, a \in RoomTotals, rs \in OccupantLists}

CustomerValues ==
    {Customer(c, n, e, ph) :
        c \in CustomerIds, n \in Names, e \in Emails, ph \in Phones}

ReservationValues ==
    {Reservation(x, c, h, d, d) :
        x \in ReservationIds, c \in CustomerIds, h \in HotelIds, d \in Dates}

InitCodec ==
    /\ hotelsFile = MissingFile
    /\ customersFile = MissingFile
    /\ reservationsFile = MissingFile
    /\ last = Call("init", None, None, None, None, None)
    /\ \E hs \in {EmptyDict} \cup {Put(EmptyDict, v.hotel_id, v) :
                                      v \in HotelValues},
          cs \in {EmptyDict} \cup {Put(EmptyDict, v.customer_id, v) :
                                      v \in CustomerValues},
          rs \in {EmptyDict} \cup {Put(EmptyDict, v.reservation_id, v) :
                                      v \in ReservationValues} :
           /\ Cardinality(DOMAIN hs) + Cardinality(DOMAIN cs)
                  + Cardinality(DOMAIN rs) = 1
           /\ proc = [p \in Procs |->
                         IF p = Holder
                         THEN [IdleProc EXCEPT !.pc = "holds", !.hotels = hs,
                                               !.customers = cs,
                                               !.reservations = rs]
                         ELSE IdleProc]

NextCodec ==
    \/ /\ hotelsFile' = save_hotels(hotelsFile, proc[Holder].hotels, "ok")
       /\ UNCHANGED <<customersFile, reservationsFile, last, proc>>
    \/ /\ customersFile'
              = save_customers(customersFile, proc[Holder].customers, "ok")
       /\ UNCHANGED <<hotelsFile, reservationsFile, last, proc>>
    \/ /\ reservationsFile'
              = save_reservations(reservationsFile,
                                  proc[Holder].reservations, "ok")
       /\ UNCHANGED <<hotelsFile, customersFile, last, proc>>
    \/ LoadHotels(Reader)
    \/ LoadCustomers(Reader)
    \/ LoadReservations(Reader)

SpecCodec == InitCodec /\ [][NextCodec]_vars

\* C21: from_dict(to_dict(x)) equals x field by field for every Hotel,
\* Customer and Reservation value x, a Hotel's available_rooms and occupant
\* list included when they are not the constructor's defaults; and loading
\* a file the objects were saved to gives the objects back.
C21_FromDictToDict ==
    /\ \A k \in DOMAIN proc[Holder].hotels :
           Hotel_from_dict(Hotel_to_dict(proc[Holder].hotels[k]))
               = proc[Holder].hotels[k]
    /\ \A k \in DOMAIN proc[Holder].customers :
           Customer_from_dict(Customer_to_dict(proc[Holder].customers[k]))
               = proc[Holder].customers[k]
    /\ \A k \in DOMAIN proc[Holder].reservations :
           Reservation_from_dict(
               Reservation_to_dict(proc[Holder].reservations[k]))
               = proc[Holder].reservations[k]
    /\ hotelsFile.kind = "json"
       => load_hotels(hotelsFile) = proc[Holder].hotels
    /\ customersFile.kind = "json"
       => load_customers(customersFile) = proc[Holder].customers
    /\ reservationsFile.kind = "json"
       => load_reservations(reservationsFile) = proc[Holder].reservations

\* a hotel whose available_rooms and occupant list are not the defaults has
\* been saved and loaded
C21_Witness ==
    /\ proc[Reader].op = "_load_hotels"
    /\ hotelsFile.kind = "json"
    /\ \E k \in DOMAIN proc[Reader].hotels :
           /\ proc[Reader].hotels[k].available_rooms
                  # proc[Reader].hotels[k].total_rooms
           /\ proc[Reader].hotels[k].reservations # <<>>
           /\ k \in DOMAIN proc[Holder].hotels

\* the operations, by the name a call is recorded under
Operations ==
    {"create_hotel", "delete_hotel", "modify_hotel", "reserve_room",
     "cancel_room", "create_customer", "delete_customer", "modify_customer",
     "create_reservation", "cancel_reservation"}

\* C22: an operation that reports failure (None from a create, False from
\* the others) leaves the three stores exactly as they were before the call.
C22_FailureChangesNothing ==
    [][(/\ last'.op \in Operations
        /\ last'.ret \in {"None", "False"})
       => (/\ hotelsFile' = hotelsFile
           /\ customersFile' = customersFile
           /\ reservationsFile' = reservationsFile)]_vars

\* create_reservation has just failed at Hotel.reserve_room, the last of its
\* checks: the id was free, the customer exists and the hotel is full
C22_Witness ==
    /\ last.op = "create_reservation"
    /\ last.ret = "None"
    /\ last.room = "False"
    /\ last.hotel_id \in DOMAIN Hotels
    /\ Hotels[last.hotel_id].available_rooms = 0
    /\ Hotels[last.hotel_id].reservations # <<>>
    /\ Reservations # EmptyDict

\* ---- operations on files that already hold records of other entities: one
\* ---- of the three files has a loadable record under K2 and a record that
\* ---- lacks a required key under K3; the hotel the operations name is K1
Target == {"K1"}

\* K3's record is K2's with the key changed and one required key missing
Bystanders(data, required, id) ==
    /\ DOMAIN data = {"K2", "K3"}
    /\ required \subseteq DOMAIN data["K2"]
    /\ ~(required \subseteq DOMAIN data["K3"])
    /\ \A f \in DOMAIN data["K3"] :
           \/ f = id
           \/ f \in DOMAIN data["K2"] /\ data["K3"][f] = data["K2"][f]

InitStored ==
    /\ \/ /\ hotelsFile \in
                 {f \in StoredFiles([k \in StoreKeys |-> HotelRecords(k)]) :
                     Bystanders(f.data, HotelRequired, "hotel_id")}
          /\ customersFile = MissingFile
          /\ reservationsFile = MissingFile
       \/ /\ hotelsFile = MissingFile
          /\ customersFile \in
                 {f \in StoredFiles([k \in StoreKeys |-> CustomerRecords(k)]) :
                     Bystanders(f.data, CustomerRequired, "customer_id")}
          /\ reservationsFile = MissingFile
    /\ last = Call("init", None, None, None, None, None)
    /\ proc = [p \in Procs |-> IdleProc]

NextStored ==
    \/ CreateHotelW(Target, Ok)
    \/ DeleteHotelW(Target, Ok)
    \/ ModifyHotelW(Target, Ok)
    \/ ReserveRoomW(Target, Ok)
    \/ CancelRoomW(Target, Ok)
    \/ CreateCustomerW(Ok)
    \/ DeleteCustomerW(Ok)
    \/ ModifyCustomerW(Ok)

SpecStored == InitStored /\ [][NextStored]_vars

HotelOps ==
    {"create_hotel", "delete_hotel", "modify_hotel", "reserve_room",
     "cancel_room"}

CustomerOps == {"create_customer", "delete_customer", "modify_customer"}

Succeeded == {"Hotel", "Customer", "Reservation", "True"}

\* every key of old outside targets is in new with the value it had
Kept(old, new, targets) ==
    \A k \in DOMAIN old \ targets : k \in DOMAIN new /\ new[k] = old[k]

\* C23 as stated: a successful operation on one entity leaves every other
\* record of the file, the records the load skipped included, in the file as
\* it was, and leaves the other two files unchanged.
C23_OthersUntouched ==
    [][/\ (last'.op \in HotelOps /\ last'.ret \in Succeeded)
          => (/\ Kept(hotelsFile.data, hotelsFile'.data, {last'.hotel_id})
              /\ customersFile' = customersFile
              /\ reservationsFile' = reservationsFile)
       /\ (last'.op \in CustomerOps /\ last'.ret \in Succeeded)
          => (/\ Kept(customersFile.data, customersFile'.data,
                      {last'.customer_id})
              /\ hotelsFile' = hotelsFile
              /\ reservationsFile' = reservationsFile)]_vars

\* C23 amended: a successful operation on one entity leaves every other
\* entity that loads from the file loadable and equal to what it was, adds no
\* key but its own, and leaves the other two files unchanged; the file it
\* saves holds the loaded entities only: a record that the load skipped is
\* gone.
C23_LoadedOthersKept ==
    [][/\ (last'.op \in HotelOps /\ last'.ret \in Succeeded)
          => (/\ Kept(Hotels, Hotels', {last'.hotel_id})
              /\ DOMAIN Hotels' \subseteq DOMAIN Hotels \cup {last'.hotel_id}
              /\ DOMAIN hotelsFile'.data = DOMAIN Hotels'
              /\ customersFile' = customersFile
              /\ reservationsFile' = reservationsFile)
       /\ (last'.op \in CustomerOps /\ last'.ret \in Succeeded)
          => (/\ Kept(Customers, Customers', {last'.customer_id})
              /\ DOMAIN Customers'
                     \subseteq DOMAIN Customers \cup {last'.customer_id}
              /\ DOMAIN customersFile'.data = DOMAIN Customers'
              /\ hotelsFile' = hotelsFile
              /\ reservationsFile' = reservationsFile)]_vars

\* reserve_room has just succeeded on K1 in a file that held K2 and the
\* malformed K3: K2 is there, K3 is not
C23_Witness ==
    /\ last.op = "reserve_room"
    /\ last.ret = "True"
    /\ last.hotel_id = "K1"
    /\ DOMAIN hotelsFile.data = {"K1", "K2"}
    /\ DOMAIN Hotels = {"K1", "K2"}

\* C24: in every state that sequential operations reach, create_hotel,
\* modify_hotel and delete_hotel followed by create_hotel of the same id
\* included, a hotel of the Hotel store has no more Reservation records than
\* total_rooms.
C24_NoOversell ==
    \A h \in DOMAIN Hotels : Cardinality(Booked(h)) <= Hotels[h].total_rooms

\* ---- two callers of create_reservation, their loads and saves
\* ---- interleaving, on a hotel with a room for each of them
NextLost ==
    \/ Idle /\ CreateHotelT
    \/ Idle /\ CreateCustomerW(Ok)
    \/ \E p \in Procs : CrCall(p, OneHotel)
    \/ \E p \in Procs : CrLoadReservations(p)
    \/ \E p \in Procs : CrLoadCustomers(p)
    \/ \E p \in Procs : RrLoadHotels(p)
    \/ \E p \in Procs : RrSaveHotels(p, Ok)
    \/ \E p \in Procs : CrCheck(p)
    \/ \E p \in Procs : CrSaveReservations(p, Ok)
    \/ \E p \in Procs : Return(p)

SpecLost == Init /\ [][NextLost]_vars

\* both calls have finished, for different ids, each with a Reservation, and
\* the hotel had a room for each: both ids are in its occupant list
BothReturned ==
    /\ \A p \in Procs :
           /\ proc[p].pc = "return"
           /\ proc[p].op = "create_reservation"
           /\ proc[p].ret = "Reservation"
           /\ proc[p].hotel_id \in DOMAIN Hotels
           /\ In(proc[p].reservation_id,
                 Hotels[proc[p].hotel_id].reservations)
    /\ proc["p1"].reservation_id # proc["p2"].reservation_id

\* C25 as stated: once two create_reservation calls for different ids have
\* both finished, every one of them that returned a Reservation has its
\* record in the Reservation store.
C25_NoLostUpdate ==
    BothReturned
    => \A p \in Procs : proc[p].reservation_id \in DOMAIN Reservations

\* C25 amended: the save of a create_reservation call leaves in the
\* Reservation store the mapping the call loaded at its start with its own
\* record added, whatever was saved in between, and the call returns a
\* Reservation; once both calls have finished the store holds the record of
\* one of them at least, and the other's only if the last save had it.
C25_LastSaveWins ==
    /\ [][\A p \in Procs :
              (/\ proc[p].pc = "cr_save_reservations"
               /\ proc'[p].pc # "cr_save_reservations")
              => (/\ proc'[p].pc = "return"
                  /\ proc'[p].ret = "Reservation"
                  /\ Reservations' = proc[p].reservations
                  /\ proc[p].reservation_id \in DOMAIN Reservations')]_vars
    /\ [](BothReturned
           => \E p \in Procs :
                  Reservations = proc[p].reservations)

\* the lost update: both calls returned a Reservation and the store holds
\* the record of one of them only
C25_Witness ==
    /\ BothReturned
    /\ Cardinality(DOMAIN Reservations) = 1

====
